---- MODULE Spec2Model ----
(***************************************************************************)
(* Model of the warikan (bill-splitting) web application, src/main.py.     *)
(* The database tables are the state; every route handler is one action.   *)
(* The settlement loop of get_group is stepped one iteration at a time.    *)
(***************************************************************************)
EXTENDS Integers, Sequences, FiniteSets, TLC

\* ------------------------------------------------------------------ bounds
MaxGroups == 2
MaxMembers == 3
MaxExpenses == 1
MaxAmount == 2
MatcherMembers == 4
MaxBalance == 3

Names == {"a", "b"}
\* one comma-separated token of members_str, before strip(): a name or blank
Tokens == Names \cup {""}
Amounts == 0 .. MaxAmount
NegativeAmounts == {-1}

VARIABLES
    groups,             \* number of rows of table groups (ids 1..groups)
    members,            \* table members: row id |-> [name, group_id]
    expenses,           \* table expenses with its expense_targets rows
    pc,                 \* "idle" | "loop" | "done": position of get_group
    response,           \* "none" | "ok" | "not_found"
    reqGroup,           \* group_id of the running / last get_group
    settlement,         \* member id |-> [paid, owed, balance]
    total_group_spend,
    debtors, creditors, \* sorted lists of [id, balance]
    i, j,               \* cursors (0-based, as in the code)
    transactions,       \* emitted [from, to, amount]
    prev                \* history: the page of the directly preceding get_group
                        \* of the same group, <<>> if there is none

store == <<groups, members, expenses>>
view == <<pc, response, reqGroup, settlement, total_group_spend,
          debtors, creditors, i, j, transactions, prev>>
vars == <<groups, members, expenses, pc, response, reqGroup, settlement,
          total_group_spend, debtors, creditors, i, j, transactions, prev>>

\* ----------------------------------------------------------------- helpers
RECURSIVE SumSeq(_)
SumSeq(s) == IF s = <<>> THEN 0 ELSE Head(s) + SumSeq(Tail(s))

Range(s) == {s[k] : k \in 1 .. Len(s)}
Abs(x) == IF x < 0 THEN 0 - x ELSE x
Min(x, y) == IF x < y THEN x ELSE y

\* sequences without repetition over S, of every length
Perms(S) ==
    UNION {{s \in [1 .. n -> S] : \A p, q \in 1 .. n : p # q => s[p] # s[q]}
           : n \in 0 .. Cardinality(S)}

\* group.members: the rows of members with this group_id, in the order of
\* their insertion
GroupMembers(g) == LET InG(m) == members[m].group_id = g
                   IN SelectSeq([m \in 1 .. Len(members) |-> m], InG)

\* group.expenses: the rows of expenses with this group_id, in the order of
\* their insertion
GroupExpenses(g) == LET InG(e) == expenses[e].group_id = g
                    IN SelectSeq([e \in 1 .. Len(expenses) |-> e], InG)

\* ------------------------------------------------------------ the allocator
\* variant: "i <= remainder", one target too many gets the extra unit
AddAmountOffByOne(amount, num_targets, pos) ==
    (amount \div num_targets) + (IF pos <= amount % num_targets THEN 1 ELSE 0)

\* add_amount = split_amount + (1 if i < remainder else 0), i 0-based
AddAmount(amount, num_targets, pos) ==
    (amount \div num_targets) + (IF pos < amount % num_targets THEN 1 ELSE 0)

\* variant: the split counts and numbers the current members among the targets only
ChargeTargetsMembersOnly(s, e, pos) ==
    LET Cur(t) == t \in DOMAIN s
        cur == SelectSeq(e.targets, Cur)
    IN [m \in DOMAIN s |->
           IF \E k \in (pos + 1) .. Len(cur) : cur[k] = m
           THEN LET k == CHOOSE k \in (pos + 1) .. Len(cur) : cur[k] = m
                IN [s[m] EXCEPT !.owed = @ + AddAmount(e.amount, Len(cur), k - 1)]
           ELSE s[m]]

\* the loop "for i, target_member in enumerate(expense.targets)", from pos on
RECURSIVE ChargeTargets(_, _, _)
ChargeTargets(s, e, pos) ==
    IF pos >= Len(e.targets) THEN s
    ELSE LET t == e.targets[pos + 1]
             s2 == IF t \in DOMAIN s
                   THEN [s EXCEPT ![t].owed =
                             @ + AddAmount(e.amount, Len(e.targets), pos)]
                   ELSE s
         IN ChargeTargets(s2, e, pos + 1)

\* variant: an expense without targets is skipped before the payer is credited
ApplyExpenseSkipEmpty(s, e) ==
    IF e.targets = <<>> THEN s
    ELSE LET s1 == IF e.payer_id \in DOMAIN s
                   THEN [s EXCEPT ![e.payer_id].paid = @ + e.amount]
                   ELSE s
         IN ChargeTargets(s1, e, 0)

\* the body of "for expense in group.expenses"
ApplyExpense(s, e) ==
    LET s1 == IF e.payer_id \in DOMAIN s
              THEN [s EXCEPT ![e.payer_id].paid = @ + e.amount]
              ELSE s
    IN IF e.targets # <<>> THEN ChargeTargets(s1, e, 0) ELSE s1

\* settlement after the first k expenses of the group
RECURSIVE AllocPrefix(_, _)
AllocPrefix(g, k) ==
    IF k = 0
    THEN [m \in Range(GroupMembers(g)) |-> [paid |-> 0, owed |-> 0, balance |-> 0]]
    ELSE ApplyExpense(AllocPrefix(g, k - 1), expenses[GroupExpenses(g)[k]])

\* step 3: balance = paid - owed
WithBalance(s) == [m \in DOMAIN s |-> [s[m] EXCEPT !.balance = s[m].paid - s[m].owed]]

Allocate(g) == WithBalance(AllocPrefix(g, Len(GroupExpenses(g))))

TotalSpend(g) == LET ge == GroupExpenses(g)
                 IN SumSeq([k \in 1 .. Len(ge) |-> expenses[ge[k]].amount])

\* -------------------------------------------------------------- the matcher
\* variant: an order that puts an entry before the entries equal to it
BeforeOrEqual(x, y, reverse) == IF reverse THEN x.balance >= y.balance
                                ELSE x.balance <= y.balance

\* the sort key order: x[1] ascending, or descending under reverse=True
Before(x, y, reverse) == IF reverse THEN x.balance > y.balance
                         ELSE x.balance < y.balance

\* list.sort is stable: an entry goes behind every entry it is not before
RECURSIVE InsertStable(_, _, _)
InsertStable(x, sorted, reverse) ==
    IF sorted = <<>> THEN <<x>>
    ELSE IF Before(x, Head(sorted), reverse) THEN <<x>> \o sorted
    ELSE <<Head(sorted)>> \o InsertStable(x, Tail(sorted), reverse)

RECURSIVE SortStable(_, _)
SortStable(s, reverse) ==
    IF s = <<>> THEN <<>>
    ELSE InsertStable(s[Len(s)], SortStable(SubSeq(s, 1, Len(s) - 1), reverse), reverse)

\* the entries [name, balance] of the members whose balance is < 0 (negative)
\* or > 0, in the order of settlement.values(); the id stands for the member
\* the name belongs to
Entries(s, order, negative) ==
    LET Keep(m) == IF negative THEN s[m].balance < 0 ELSE s[m].balance > 0
        ids == SelectSeq(order, Keep)
    IN [k \in 1 .. Len(ids) |-> [id |-> ids[k], balance |-> s[ids[k]].balance]]

\* debtors, sorted by x[1]
Debtors(s, order) == SortStable(Entries(s, order, TRUE), FALSE)

\* creditors, sorted by x[1] with reverse=True
Creditors(s, order) == SortStable(Entries(s, order, FALSE), TRUE)

\* variant: max instead of min
AmountMax(debtor, creditor) ==
    IF Abs(debtor.balance) > creditor.balance THEN Abs(debtor.balance)
    ELSE creditor.balance

\* variant: the debt is paid off one unit per transaction
AmountUnit(debtor, creditor) == Min(Min(Abs(debtor.balance), creditor.balance), 1)

\* amount = min(abs(debtor[1]), creditor[1])
Amount(debtor, creditor) == Min(Abs(debtor.balance), creditor.balance)

\* ------------------------------------------------------------------- state
NoView ==
    /\ pc = "idle"
    /\ response = "none"
    /\ reqGroup = 0
    /\ settlement = <<>>
    /\ total_group_spend = 0
    /\ debtors = <<>>
    /\ creditors = <<>>
    /\ i = 0
    /\ j = 0
    /\ transactions = <<>>
    /\ prev = <<>>

Init ==
    /\ groups = 0
    /\ members = <<>>
    /\ expenses = <<>>
    /\ NoView

\* a redirect answer: the rendered page of an earlier get_group is gone
Redirect ==
    /\ pc' = "idle"
    /\ response' = "none"
    /\ reqGroup' = 0
    /\ settlement' = <<>>
    /\ total_group_spend' = 0
    /\ debtors' = <<>>
    /\ creditors' = <<>>
    /\ i' = 0
    /\ j' = 0
    /\ transactions' = <<>>
    /\ prev' = <<>>

\* ----------------------------------------------------------------- actions
\* POST /groups; tokens is members_str.split(",")
create_group(tokens) ==
    LET member_names == SelectSeq(tokens, LAMBDA t : t # "")
        rows == [k \in 1 .. Len(member_names) |->
                    [name |-> member_names[k], group_id |-> groups + 1]]
    IN /\ pc = "idle"
       /\ groups < MaxGroups
       /\ Len(members) + Len(member_names) <= MaxMembers
       /\ groups' = groups + 1
       /\ members' = members \o rows
       /\ UNCHANGED expenses
       /\ Redirect

\* POST /groups/{group_id}/members; an unknown group is answered 404 and
\* changes nothing, name is the form value after strip()
add_member(group_id, name) ==
    LET existing == \E m \in 1 .. Len(members) :
                        members[m].group_id = group_id /\ members[m].name = name
    IN /\ pc = "idle"
       /\ group_id \in 1 .. groups
       /\ IF ~existing /\ name # ""
          THEN /\ Len(members) < MaxMembers
               /\ members' = Append(members, [name |-> name, group_id |-> group_id])
          ELSE UNCHANGED members
       /\ UNCHANGED <<groups, expenses>>
       /\ Redirect

\* db.query(Member).filter(Member.id.in_(target_ids)).all(): the existing
\* members among target_ids, each once, in the order the database returns
QueryMembers(target_ids) == Perms(target_ids \cap (1 .. Len(members)))

\* POST /groups/{group_id}/expenses; neither group_id nor payer_id nor the
\* group of a target is looked up
add_expense(group_id, amount, payer_id, target_ids) ==
    /\ pc = "idle"
    /\ Len(expenses) < MaxExpenses
    /\ \E targets \in QueryMembers(target_ids) :
           expenses' = Append(expenses, [amount |-> amount, payer_id |-> payer_id,
                                         group_id |-> group_id, targets |-> targets])
    /\ UNCHANGED <<groups, members>>
    /\ Redirect

\* POST /expenses/{expense_id}/edit; an unknown expense is answered 404
update_expense(expense_id, amount, payer_id, target_ids) ==
    /\ pc = "idle"
    /\ expense_id \in 1 .. Len(expenses)
    /\ \E targets \in QueryMembers(target_ids) :
           expenses' = [expenses EXCEPT ![expense_id] =
                           [@ EXCEPT !.amount = amount, !.payer_id = payer_id,
                                     !.targets = targets]]
    /\ UNCHANGED <<groups, members>>
    /\ Redirect

\* GET /expenses/{expense_id}/delete; an unknown expense is answered 404
delete_expense(expense_id) ==
    /\ pc = "idle"
    /\ expense_id \in 1 .. Len(expenses)
    /\ expenses' = [k \in 1 .. Len(expenses) - 1 |->
                       IF k < expense_id THEN expenses[k] ELSE expenses[k + 1]]
    /\ UNCHANGED <<groups, members>>
    /\ Redirect

\* what get_group has on the page when it finished
Result == [settlement |-> settlement, transactions |-> transactions,
           total_group_spend |-> total_group_spend, response |-> response]

\* GET /groups/{group_id}: up to the head of the while loop
get_group(group_id) ==
    /\ pc # "loop"
    /\ reqGroup' = group_id
    /\ prev' = IF pc = "done" /\ reqGroup = group_id THEN Result ELSE <<>>
    /\ i' = 0
    /\ j' = 0
    /\ transactions' = <<>>
    /\ IF group_id \notin 1 .. groups
       THEN /\ pc' = "done"
            /\ response' = "not_found"
            /\ settlement' = <<>>
            /\ total_group_spend' = 0
            /\ debtors' = <<>>
            /\ creditors' = <<>>
       ELSE /\ pc' = "loop"
            /\ response' = "none"
            /\ settlement' = Allocate(group_id)
            /\ total_group_spend' = TotalSpend(group_id)
            /\ debtors' = Debtors(Allocate(group_id), GroupMembers(group_id))
            /\ creditors' = Creditors(Allocate(group_id), GroupMembers(group_id))
    /\ UNCHANGED store

\* variant: "elif" for the creditor, so one cursor at most moves per iteration
LoopStepElif ==
    /\ pc = "loop"
    /\ i < Len(debtors) /\ j < Len(creditors)
    /\ LET debtor == debtors[i + 1]
           creditor == creditors[j + 1]
           amount == Amount(debtor, creditor)
           d2 == IF amount > 0 THEN debtor.balance + amount ELSE debtor.balance
           c2 == IF amount > 0 THEN creditor.balance - amount ELSE creditor.balance
       IN /\ transactions' =
                IF amount > 0
                THEN Append(transactions, [from |-> debtor.id, to |-> creditor.id,
                                           amount |-> amount])
                ELSE transactions
          /\ debtors' = [debtors EXCEPT ![i + 1].balance = d2]
          /\ creditors' = [creditors EXCEPT ![j + 1].balance = c2]
          /\ i' = IF Abs(d2) = 0 THEN i + 1 ELSE i
          /\ j' = IF Abs(d2) # 0 /\ Abs(c2) = 0 THEN j + 1 ELSE j
    /\ UNCHANGED <<store, pc, response, reqGroup, settlement, total_group_spend, prev>>

\* one iteration of "while i < len(debtors) and j < len(creditors)"
LoopStep ==
    /\ pc = "loop"
    /\ i < Len(debtors) /\ j < Len(creditors)
    /\ LET debtor == debtors[i + 1]
           creditor == creditors[j + 1]
           amount == Amount(debtor, creditor)
           d2 == IF amount > 0 THEN debtor.balance + amount ELSE debtor.balance
           c2 == IF amount > 0 THEN creditor.balance - amount ELSE creditor.balance
       IN /\ transactions' =
                IF amount > 0
                THEN Append(transactions, [from |-> debtor.id, to |-> creditor.id,
                                           amount |-> amount])
                ELSE transactions
          /\ debtors' = [debtors EXCEPT ![i + 1].balance = d2]
          /\ creditors' = [creditors EXCEPT ![j + 1].balance = c2]
          /\ i' = IF Abs(d2) = 0 THEN i + 1 ELSE i
          /\ j' = IF Abs(c2) = 0 THEN j + 1 ELSE j
    /\ UNCHANGED <<store, pc, response, reqGroup, settlement, total_group_spend, prev>>

\* the loop condition fails: the page is rendered
Render ==
    /\ pc = "loop"
    /\ ~(i < Len(debtors) /\ j < Len(creditors))
    /\ pc' = "done"
    /\ response' = "ok"
    /\ UNCHANGED <<store, reqGroup, settlement, total_group_spend,
                   debtors, creditors, i, j, transactions, prev>>

\* get_db, "finally: db.close()": the request of get_group is over
close ==
    /\ pc = "done"
    /\ UNCHANGED store
    /\ Redirect

\* target_ids is a required form field: at least one id; 0 is the id of no row
TargetIdSets == (SUBSET (1 .. MaxMembers) \ {{}}) \cup {{0}}

TokenLists == {<<>>} \cup {<<t>> : t \in Tokens} \cup {<<t, u>> : t, u \in Tokens}

\* amount is any int the form sends: a non-negative one, or a negative one
Next ==
    \/ \E tokens \in TokenLists : create_group(tokens)
    \/ \E g \in 1 .. MaxGroups, n \in Tokens : add_member(g, n)
    \/ \E g \in 1 .. MaxGroups, a \in Amounts, p \in 1 .. MaxMembers,
          t \in TargetIdSets : add_expense(g, a, p, t)
    \/ \E g \in 1 .. MaxGroups, a \in NegativeAmounts, p \in 1 .. MaxMembers,
          t \in TargetIdSets : add_expense(g, a, p, t)
    \/ \E e \in 1 .. MaxExpenses, a \in Amounts \cup NegativeAmounts,
          p \in 1 .. MaxMembers, t \in TargetIdSets : update_expense(e, a, p, t)
    \/ \E e \in 1 .. MaxExpenses : delete_expense(e)
    \/ \E g \in 1 .. MaxGroups : get_group(g)
    \/ LoopStep
    \/ Render
    \/ close

Spec == Init /\ [][Next]_vars

\* ------------------------------------------------- the matcher on any input
\* the loop reads the balances only, not the tables: every balance map over a
\* roster of MatcherMembers members, handed to the loop as get_group does
MatcherRoster == [m \in 1 .. MatcherMembers |-> [name |-> "a", group_id |-> 1]]

MatcherInputs ==
    {[m \in 1 .. MatcherMembers |->
         [paid |-> IF b[m] > 0 THEN b[m] ELSE 0,
          owed |-> IF b[m] < 0 THEN 0 - b[m] ELSE 0,
          balance |-> b[m]]]
     : b \in [1 .. MatcherMembers -> (0 - MaxBalance) .. MaxBalance]}

InitMatcher ==
    /\ groups = 1
    /\ members = MatcherRoster
    /\ expenses = <<>>
    /\ pc = "loop"
    /\ response = "none"
    /\ reqGroup = 1
    /\ settlement \in MatcherInputs
    /\ total_group_spend = 0
    /\ debtors = Debtors(settlement, GroupMembers(1))
    /\ creditors = Creditors(settlement, GroupMembers(1))
    /\ i = 0
    /\ j = 0
    /\ transactions = <<>>
    /\ prev = <<>>

NextMatcher == LoopStep \/ Render

SpecMatcher == InitMatcher /\ [][NextMatcher]_vars

\* the handler is one thread of control that runs to its return
FairSpecMatcher == SpecMatcher /\ WF_vars(NextMatcher)
\* ================================================================== claims
Max(x, y) == IF x > y THEN x ELSE y

RECURSIVE SumOver(_, _)
SumOver(f, S) ==
    IF S = {} THEN 0
    ELSE LET x == CHOOSE y \in S : TRUE IN f[x] + SumOver(f, S \ {x})

\* get_group was asked for a group that exists
Viewing == pc # "idle" /\ reqGroup \in 1 .. groups

Balance(m) == settlement[m].balance
SumBalances == SumOver([m \in DOMAIN settlement |-> Balance(m)], DOMAIN settlement)
NumDebtors == Cardinality({m \in DOMAIN settlement : Balance(m) < 0})
NumCreditors == Cardinality({m \in DOMAIN settlement : Balance(m) > 0})

\* what the transactions move away from / towards member m
PaidOut(m) == SumSeq([k \in 1 .. Len(transactions) |->
                  IF transactions[k].from = m THEN transactions[k].amount ELSE 0])
Received(m) == SumSeq([k \in 1 .. Len(transactions) |->
                  IF transactions[k].to = m THEN transactions[k].amount ELSE 0])

\* the k-th expense of the viewed group, and the settlement around it
ViewedExpense(k) == expenses[GroupExpenses(reqGroup)[k]]
NumViewed == Len(GroupExpenses(reqGroup))
SettlementBefore(k) == AllocPrefix(reqGroup, k - 1)
SettlementAfter(k) == AllocPrefix(reqGroup, k)
IsMember(m) == m \in Range(GroupMembers(reqGroup))

\* what expense k adds to the owed of the target at position pos (0-based);
\* a target without settlement entry is charged nothing
Charge(k, pos) ==
    LET t == ViewedExpense(k).targets[pos + 1]
    IN IF t \in DOMAIN SettlementAfter(k)
       THEN SettlementAfter(k)[t].owed - SettlementBefore(k)[t].owed
       ELSE 0

\* the share the spec gives position pos of N targets of amount A
Share(A, N, pos) == (A \div N) + (IF pos < A % N THEN 1 ELSE 0)

\* the settlement on the page is the one after the last expense
PageIsLast ==
    \A m \in DOMAIN settlement :
        /\ settlement[m].paid = SettlementAfter(NumViewed)[m].paid
        /\ settlement[m].owed = SettlementAfter(NumViewed)[m].owed

\* C1: the balances get_group computes sum to 0 over the members of the group
ZeroSum == Viewing => SumBalances = 0

\* C2: applying every emitted transaction to the balances get_group computed
\* leaves every member at 0
SettlementCorrect ==
    (Viewing /\ pc = "done") =>
        \A m \in DOMAIN settlement : Balance(m) + PaidOut(m) - Received(m) = 0

Minimality == Len(transactions) <= Max(0, NumDebtors + NumCreditors - 1)

\* two debtors and two creditors were settled with three transactions
MinimalityWitness ==
    /\ pc = "done" /\ NumDebtors = 2 /\ NumCreditors = 2
    /\ Len(transactions) = 3

\* C5: balances that do not sum to 0 end the matcher in an invariant-violation
\* error, never in a page with a transaction list
InternalConsistencyError ==
    (Viewing /\ pc = "done" /\ SumBalances # 0) =>
        response = "invariant_violation"

\* C6: an expense with no targets raises no error, adds its amount to the paid
\* of the payer when the payer is a member, and changes no owed
ZeroTargets ==
    Viewing =>
        /\ PageIsLast
        /\ pc = "done" => response = "ok"
        /\ \A k \in 1 .. NumViewed :
            LET e == ViewedExpense(k)
                before == SettlementBefore(k)
                after == SettlementAfter(k)
            IN e.targets = <<>> =>
                /\ DOMAIN after = DOMAIN before
                /\ \A m \in DOMAIN before :
                       /\ after[m].owed = before[m].owed
                       /\ after[m].paid = before[m].paid +
                              (IF m = e.payer_id THEN e.amount ELSE 0)

\* a page was rendered for a group with an expense of 2 paid by a member for nobody
ZeroTargetsWitness ==
    /\ Viewing /\ pc = "done" /\ response = "ok"
    /\ \E k \in 1 .. NumViewed :
           LET e == ViewedExpense(k)
           IN /\ e.targets = <<>> /\ e.amount = 2 /\ IsMember(e.payer_id)
              /\ settlement[e.payer_id].paid = 2
              /\ settlement[e.payer_id].balance = 2

\* members of equal balance keep their member order in the sorted list
TieOrder(list) ==
    \A p, q \in 1 .. Len(list) :
        (p < q /\ Balance(list[p].id) = Balance(list[q].id)) => list[p].id < list[q].id

StaleSkipped ==
    Viewing =>
        /\ PageIsLast
        /\ DOMAIN settlement = Range(GroupMembers(reqGroup))
        /\ \A k \in 1 .. NumViewed :
            LET e == ViewedExpense(k)
                N == Len(e.targets)
                before == SettlementBefore(k)
                after == SettlementAfter(k)
            IN /\ DOMAIN after = Range(GroupMembers(reqGroup))
               /\ ~IsMember(e.payer_id) =>
                      \A m \in DOMAIN before : after[m].paid = before[m].paid
               /\ \A m \in DOMAIN before :
                      after[m].owed - before[m].owed =
                          SumSeq([q \in 1 .. N |->
                              IF e.targets[q] = m THEN Share(e.amount, N, q - 1) ELSE 0])

\* an expense of 1 for a non-member (first) and a member (second), paid by a
\* non-member, was allocated: the member owes 0, nobody has paid
StaleWitness ==
    /\ Viewing /\ pc = "done" /\ response = "ok"
    /\ \E k \in 1 .. NumViewed :
           LET e == ViewedExpense(k)
           IN /\ Len(e.targets) = 2 /\ e.amount = 1
              /\ ~IsMember(e.targets[1]) /\ IsMember(e.targets[2])
              /\ ~IsMember(e.payer_id)
              /\ settlement[e.targets[2]].owed = 0
              /\ \A m \in DOMAIN settlement : settlement[m].paid = 0

\* C9: the loop terminates, every iteration moves a cursor forward, and on
\* balances that sum to 0 both cursors reach the ends in the same iteration
LoopTerminates ==
    /\ <>(pc = "done")
    /\ [][(pc = "loop" /\ pc' = "loop") =>
              /\ i' >= i /\ j' >= j /\ i' + j' > i + j
              /\ i' + j' <= NumDebtors + NumCreditors]_vars
    /\ [](SumBalances = 0 => ((i = Len(debtors)) <=> (j = Len(creditors))))

\* a zero-sum input with two debtors was matched to the end of both lists
LoopTerminatesWitness ==
    /\ pc = "done" /\ SumBalances = 0
    /\ NumDebtors = 2 /\ NumCreditors = 1
    /\ i = 2 /\ j = 1 /\ Len(transactions) = 2

\* C10: remaining balances of debtors stay <= 0 and of creditors >= 0; every
\* transaction has a positive amount and goes from a member whose balance was
\* negative to another member whose balance was positive
WellFormed ==
    /\ \A k \in 1 .. Len(debtors) : debtors[k].balance <= 0
    /\ \A k \in 1 .. Len(creditors) : creditors[k].balance >= 0
    /\ \A k \in 1 .. Len(transactions) :
           LET t == transactions[k]
           IN /\ t.amount \in Nat \ {0}
              /\ t.from \in DOMAIN settlement /\ Balance(t.from) < 0
              /\ t.to \in DOMAIN settlement /\ Balance(t.to) > 0
              /\ t.from # t.to

\* a debtor of 2 paid two creditors while a member of balance 0 stayed out
WellFormedWitness ==
    /\ pc = "done" /\ Len(transactions) = 2
    /\ transactions[1].from = transactions[2].from
    /\ transactions[1].to # transactions[2].to
    /\ \E m \in DOMAIN settlement : Balance(m) = 0

====
